---- MODULE Spec2Model ----
(***************************************************************************)
(* Model of prior.load_dataset / prior.load_model (src/prior/__init__.py): *)
(* the revision resolver _clone_repo, the per-namespace revision cache     *)
(* file, the lock-guarded clone / checkout / restore of a snapshot and the *)
(* git-lfs materialisation, run by several operating-system processes on   *)
(* one (entity, project) namespace of the on-disk cache tree.              *)
(*                                                                         *)
(* load_dataset and load_model share the same state machine; they differ   *)
(* only in the arguments of the subprocesses (GIT_LFS_SKIP_SMUDGE, the     *)
(* --include filter, models.json), which the model does not distinguish.   *)
(***************************************************************************)
EXTENDS Naturals, FiniteSets

\* Number of concurrent processes, each performing one load call.  A second
\* call "in sequence" is a process that starts after another one finished:
\* nothing but the disk is carried from one call to the next.
NProcs == 2

Procs == 1..NProcs

\* Content addresses (commit ids) and the revisions callers pass: a tag or
\* branch name, or a commit id.
Shas == {"abc123", "def456"}
Revisions == {"v1", "abc123"}

None == "None"

\* Status codes of the revision-listing query that the code distinguishes:
\* 200, 404, 403 and "anything else" (500 stands for it).
StatusCodes == {200, 403, 404, 500}

\* The three lock files: BASE_DIR/git-lfs-lock, project_dir/cache-lock and
\* project_dir/lock.
Locks == {"git-lfs-lock", "cache-lock", "lock"}

\* States of the directory project_dir/<sha>.
\*   absent       does not exist
\*   partial      created by a git clone that is running or was interrupted
\*   cloned       git clone finished, default branch checked out
\*   checked      git checkout <sha> succeeded
\*   complete     git restore --staged . ran after the checkout
\*   materialized the git-lfs install / fetch / checkout trio all succeeded
SnapStates == {"absent", "partial", "cloned", "checked", "complete", "materialized"}

EmptyCache == [r \in Revisions |-> None]

VARIABLES
    nativeLocking,  \* platform has advisory file locking (else LockEx is a no-op)
    cacheExists,    \* project_dir/cache exists
    cache,          \* its contents: revision -> sha, None when the key is absent
    snap,           \* state of project_dir/<sha> for each sha
    holders,        \* processes holding each lock file
    pc,             \* position of each process in load_dataset
    revision,       \* argument of the call
    offline,        \* argument of the call
    sha,            \* local sha of _clone_repo / load_dataset
    token,          \* local token: "" or the credential source it came from
    cached_sha,     \* local cached_sha of _clone_repo
    cacheCopy,      \* local dict `cache` read inside the cache-lock
    outcome,        \* "running", "returned" or the exception raised
    shortcut,       \* history: the directory named `revision` existed (line 156)
    observed,       \* history: snapshot state seen when the download was skipped
    cloneOutcome,   \* history: what the git clone of this process did
    acq,            \* history: lock files this call acquired
    ran,            \* history: subprocesses and network calls this call made
    queryCase,      \* history: the case of lines 177-229 the listing query fell in
    notFound,       \* history: the last answer of the remote was "not found"
    bestSource,     \* history: the first credential source, in priority order, that was there
    checkoutFailed, \* history: the git checkout of this call exited non-zero
    lfsFailed       \* history: one of the three git lfs commands exited non-zero

vars == <<nativeLocking, cacheExists, cache, snap, holders,
          pc, revision, offline, sha, token, cached_sha, cacheCopy, outcome,
          shortcut, observed, cloneOutcome, acq, ran,
          queryCase, notFound, bestSource, checkoutFailed, lfsFailed>>

locals == <<revision, offline, sha, token, cached_sha, cacheCopy>>
hist == <<shortcut, observed, cloneOutcome, acq, ran>>
query == <<queryCase, notFound, bestSource>>

----------------------------------------------------------------------------
\* Filesystem predicates

\* os.path.exists(f"{project_dir}/{name}") for a revision or sha name: only
\* snapshot directories, named by a sha, are ever created under project_dir
\* besides cache, cache-lock and lock.
DirExists(name) == name \in Shas /\ snap[name] # "absent"

----------------------------------------------------------------------------
\* LockEx (prior/lock.py): blocking exclusive advisory lock on a path, released
\* on scope exit; a no-op on a platform without native file locking.

CanAcquire(l) == nativeLocking => holders[l] = {}

Acquire(p, l) == [holders EXCEPT ![l] = @ \cup {p}]

Release(p, l) == [holders EXCEPT ![l] = @ \ {p}]

----------------------------------------------------------------------------
Init ==
    /\ nativeLocking \in BOOLEAN
    /\ cacheExists = FALSE
    /\ cache = EmptyCache
    /\ snap = [s \in Shas |-> "absent"]
    /\ holders = [l \in Locks |-> {}]
    /\ pc = [p \in Procs |-> "idle"]
    /\ revision = [p \in Procs |-> None]
    /\ offline = [p \in Procs |-> FALSE]
    /\ sha = [p \in Procs |-> None]
    /\ token = [p \in Procs |-> ""]
    /\ cached_sha = [p \in Procs |-> None]
    /\ cacheCopy = [p \in Procs |-> EmptyCache]
    /\ outcome = [p \in Procs |-> "idle"]
    /\ shortcut = [p \in Procs |-> FALSE]
    /\ observed = [p \in Procs |-> "none"]
    /\ cloneOutcome = [p \in Procs |-> "none"]
    /\ acq = [p \in Procs |-> {}]
    /\ ran = [p \in Procs |-> {}]
    /\ queryCase = [p \in Procs |-> "none"]
    /\ notFound = [p \in Procs |-> FALSE]
    /\ bestSource = [p \in Procs |-> ""]
    /\ checkoutFailed = [p \in Procs |-> FALSE]
    /\ lfsFailed = [p \in Procs |-> FALSE]

----------------------------------------------------------------------------
\* _clone_repo

\* Mutant of clone_repo_start: the offline flag is tested before the directory
\* named `revision`.
clone_repo_start_offline_first(p) ==
    /\ pc[p] = "idle"
    /\ \E r \in Revisions, off \in BOOLEAN :
        /\ revision' = [revision EXCEPT ![p] = r]
        /\ offline' = [offline EXCEPT ![p] = off]
        /\ outcome' = [outcome EXCEPT ![p] = "running"]
        /\ shortcut' = [shortcut EXCEPT ![p] = DirExists(r)]
        /\ IF off
           THEN /\ pc' = [pc EXCEPT ![p] = "gc_exists"]
                /\ UNCHANGED sha
           ELSE IF DirExists(r)
           THEN /\ sha' = [sha EXCEPT ![p] = r]
                /\ pc' = [pc EXCEPT ![p] = "lfs_lock"]
           ELSE /\ pc' = [pc EXCEPT ![p] = "http"]
                /\ UNCHANGED sha
    /\ UNCHANGED <<nativeLocking, lfsFailed, query, checkoutFailed, cacheExists, cache, snap, holders, token,
                   cached_sha, cacheCopy, observed, cloneOutcome, acq, ran>>

\* Mutant of clone_repo_start: the short-circuit of line 156 records the
\* revision in the cache file before it returns.
clone_repo_start_caches(p) ==
    /\ pc[p] = "idle"
    /\ \E r \in Revisions, off \in BOOLEAN :
        /\ revision' = [revision EXCEPT ![p] = r]
        /\ offline' = [offline EXCEPT ![p] = off]
        /\ outcome' = [outcome EXCEPT ![p] = "running"]
        /\ shortcut' = [shortcut EXCEPT ![p] = DirExists(r)]
        /\ IF DirExists(r)
           THEN /\ sha' = [sha EXCEPT ![p] = r]
                /\ cache' = [cache EXCEPT ![r] = r]
                /\ cacheExists' = TRUE
                /\ pc' = [pc EXCEPT ![p] = "lfs_lock"]
           ELSE /\ pc' = [pc EXCEPT ![p] = IF off THEN "gc_exists" ELSE "http"]
                /\ UNCHANGED <<sha, cache, cacheExists>>
    /\ UNCHANGED <<nativeLocking, lfsFailed, query, checkoutFailed, snap, holders, token,
                   cached_sha, cacheCopy, observed, cloneOutcome, acq, ran>>

\* Lines 149-172: makedirs, then the three-way branch on the directory named
\* `revision`, the offline flag, and the online path.
clone_repo_start(p) ==
    /\ pc[p] = "idle"
    /\ \E r \in Revisions, off \in BOOLEAN :
        /\ revision' = [revision EXCEPT ![p] = r]
        /\ offline' = [offline EXCEPT ![p] = off]
        /\ outcome' = [outcome EXCEPT ![p] = "running"]
        /\ shortcut' = [shortcut EXCEPT ![p] = DirExists(r)]
        /\ IF DirExists(r)
           THEN /\ sha' = [sha EXCEPT ![p] = r]
                /\ pc' = [pc EXCEPT ![p] = "lfs_lock"]
           ELSE /\ pc' = [pc EXCEPT ![p] = IF off THEN "gc_exists" ELSE "http"]
                /\ UNCHANGED sha
    /\ UNCHANGED <<nativeLocking, lfsFailed, query, checkoutFailed, cacheExists, cache, snap, holders, token,
                   cached_sha, cacheCopy, observed, cloneOutcome, acq, ran>>

\* get_cached_sha, line 141: os.path.exists(cache), outside the lock.
get_cached_sha_exists(p) ==
    /\ pc[p] = "gc_exists"
    /\ IF cacheExists
       THEN /\ pc' = [pc EXCEPT ![p] = "gc_lock"]
            /\ UNCHANGED cached_sha
       ELSE /\ cached_sha' = [cached_sha EXCEPT ![p] = None]
            /\ pc' = [pc EXCEPT ![p] = IF offline[p] THEN "off_check" ELSE "rl_cont"]
    /\ UNCHANGED <<nativeLocking, lfsFailed, query, checkoutFailed, cacheExists, cache, snap, holders, revision,
                   offline, sha, token, cacheCopy, outcome, hist>>

\* get_cached_sha, line 142: with LockEx(cache-lock).
get_cached_sha_lock(p) ==
    /\ pc[p] = "gc_lock"
    /\ CanAcquire("cache-lock")
    /\ holders' = Acquire(p, "cache-lock")
    /\ acq' = [acq EXCEPT ![p] = @ \cup {"cache-lock"}]
    /\ pc' = [pc EXCEPT ![p] = "gc_read"]
    /\ UNCHANGED <<nativeLocking, lfsFailed, query, checkoutFailed, cacheExists, cache, snap, locals, outcome,
                   shortcut, observed, cloneOutcome, ran>>

\* get_cached_sha, lines 143-147: read the file, look the revision up, leave
\* the with block.
get_cached_sha_read(p) ==
    /\ pc[p] = "gc_read"
    /\ cached_sha' = [cached_sha EXCEPT ![p] = cache[revision[p]]]
    /\ holders' = Release(p, "cache-lock")
    /\ pc' = [pc EXCEPT ![p] = IF offline[p] THEN "off_check" ELSE "rl_cont"]
    /\ UNCHANGED <<nativeLocking, lfsFailed, query, checkoutFailed, cacheExists, cache, snap, revision, offline,
                   sha, token, cacheCopy, outcome, hist>>

\* Mutant of offline_unavailable: `and` with the test of cached_sha negated.
offline_unavailable_and(p) ==
    cached_sha[p] # None /\ ~DirExists(cached_sha[p])

\* Line 164: the condition under which the offline branch raises.
offline_unavailable(p) ==
    cached_sha[p] = None \/ ~DirExists(cached_sha[p])

\* Mutant of offline_check: the revision string is returned in place of the
\* cached sha.
offline_check_revision(p) ==
    /\ pc[p] = "off_check"
    /\ IF offline_unavailable(p)
       THEN /\ pc' = [pc EXCEPT ![p] = "done"]
            /\ outcome' = [outcome EXCEPT ![p] = "ValueError"]
            /\ UNCHANGED sha
       ELSE /\ sha' = [sha EXCEPT ![p] = revision[p]]
            /\ pc' = [pc EXCEPT ![p] = "lfs_lock"]
            /\ UNCHANGED outcome
    /\ UNCHANGED <<nativeLocking, lfsFailed, query, checkoutFailed, cacheExists, cache, snap, holders, revision,
                   offline, token, cached_sha, cacheCopy, hist>>

\* Lines 164-171: the offline branch after the cache lookup.
offline_check(p) ==
    /\ pc[p] = "off_check"
    /\ IF offline_unavailable(p)
       THEN /\ pc' = [pc EXCEPT ![p] = "done"]
            /\ outcome' = [outcome EXCEPT ![p] = "ValueError"]
            /\ UNCHANGED sha
       ELSE /\ sha' = [sha EXCEPT ![p] = cached_sha[p]]
            /\ pc' = [pc EXCEPT ![p] = "lfs_lock"]
            /\ UNCHANGED outcome
    /\ UNCHANGED <<nativeLocking, lfsFailed, query, checkoutFailed, cacheExists, cache, snap, holders, revision,
                   offline, token, cached_sha, cacheCopy, hist>>

\* The commits a revision can resolve to at the remote: a commit id names
\* itself, a branch or tag is at one commit or, once moved, at another.
RemoteTargets(r) == IF r \in Shas THEN {r} ELSE Shas

\* ~/.git-credentials as lines 180 and 209-211 see it: missing, present
\* without a line ending in github.com, present with one.
CredentialFiles == {"absent", "nogithub", "github"}

\* The cases lines 177-229 tell apart: the status of the listing query and,
\* for a 403 or 404, whether a credential source is there.
QueryCases == {"200", "403 no credentials", "404 no credentials",
               "credentials", "other"}

query_case(st, c) ==
    CASE st = 200 -> "200"
      [] st \in {403, 404} /\ c -> "credentials"
      [] st = 403 /\ ~c -> "403 no credentials"
      [] st = 404 /\ ~c -> "404 no credentials"
      [] OTHER -> "other"

\* Lines 179-183, negated: a credential source is there.
has_creds(g, e, f) == f # "absent" \/ g \/ e

\* The credential sources, and their rank in the order of lines 202-209:
\* the in-process override, the environment variable, the stored credential
\* file.
CredentialSources == {"override", "env", "file"}

rank(src) == CASE src = "override" -> 1 [] src = "env" -> 2 [] OTHER -> 3

\* The sources that are there: gh_auth_token is not None, GITHUB_TOKEN is in
\* the environment, ~/.git-credentials exists.
available(g, e, f) ==
    {src \in CredentialSources :
        \/ src = "override" /\ g
        \/ src = "env" /\ e
        \/ src = "file" /\ f # "absent"}

\* The source of highest priority among those that are there.
best_source(g, e, f) ==
    CHOOSE src \in available(g, e, f) :
        \A other \in available(g, e, f) : rank(src) <= rank(other)

\* Mutant of token_source: GITHUB_TOKEN is looked at before gh_auth_token.
token_source_env_first(g, e) ==
    IF e THEN "env" ELSE IF g THEN "override" ELSE "file"

\* Lines 202-213: the token, by source, when one of them is set.
token_source(g, e) ==
    IF g THEN "override" ELSE IF e THEN "env" ELSE "file"

\* Mutant of http_ok: the listed commit is returned without the cache write.
http_ok_no_put(p, head) ==
    /\ sha' = [sha EXCEPT ![p] = head]
    /\ pc' = [pc EXCEPT ![p] = "lfs_lock"]
    /\ UNCHANGED <<token, outcome, notFound, bestSource>>

\* Lines 226-227: status 200, the first listed commit is the sha; control
\* goes on to the cache write of line 231.
http_ok(p, head) ==
    /\ sha' = [sha EXCEPT ![p] = head]
    /\ pc' = [pc EXCEPT ![p] = "put_lock"]
    /\ UNCHANGED <<token, outcome, notFound, bestSource>>

\* Mutant of http_no_creds: the raise of lines 190-200 is missing and a 404
\* goes on like a 403.
http_no_creds_no_raise(p, st) ==
    /\ pc' = [pc EXCEPT ![p] = IF st = 403 THEN "gc_exists" ELSE "rl_cont"]
    /\ notFound' = [notFound EXCEPT ![p] = (st = 404)]
    /\ UNCHANGED <<sha, token, outcome, bestSource>>

\* Lines 184-200: status 403 or 404 and no credential source.  A 403 looks
\* the cache up; a 404 raises the "Could not find dataset" exception.
http_no_creds(p, st) ==
    /\ IF st = 403
       THEN /\ pc' = [pc EXCEPT ![p] = "gc_exists"]
            /\ UNCHANGED <<sha, token, outcome, notFound, bestSource>>
       ELSE /\ pc' = [pc EXCEPT ![p] = "done"]
            /\ outcome' = [outcome EXCEPT ![p] = "NotFoundNoCredentials"]
            /\ notFound' = [notFound EXCEPT ![p] = TRUE]
            /\ UNCHANGED <<sha, token, bestSource>>

\* Lines 202-213: status 403 or 404 and a credential source.  When only the
\* file is there and no line of it ends in github.com, next() raises.
http_with_creds(p, g, e, f) ==
    /\ bestSource' = [bestSource EXCEPT ![p] = best_source(g, e, f)]
    /\ IF ~g /\ ~e /\ f = "nogithub"
       THEN /\ pc' = [pc EXCEPT ![p] = "done"]
            /\ outcome' = [outcome EXCEPT ![p] = "StopIteration"]
            /\ UNCHANGED <<sha, token, notFound>>
       ELSE /\ token' = [token EXCEPT ![p] = token_source(g, e)]
            /\ pc' = [pc EXCEPT ![p] = "auth"]
            /\ UNCHANGED <<sha, outcome, notFound>>

\* Lines 228-229: any other status.
http_unknown(p) ==
    /\ pc' = [pc EXCEPT ![p] = "done"]
    /\ outcome' = [outcome EXCEPT ![p] = "UnknownStatus"]
    /\ UNCHANGED <<sha, token, notFound, bestSource>>

\* Lines 173-229: the revision-listing query and the branch on its status.
\* g, e, f: gh_auth_token is set, GITHUB_TOKEN is in the environment, the
\* state of ~/.git-credentials.
http_get(p) ==
    /\ pc[p] = "http"
    /\ \E st \in StatusCodes, g \in BOOLEAN, e \in BOOLEAN, f \in CredentialFiles,
          head \in RemoteTargets(revision[p]) :
        /\ ran' = [ran EXCEPT ![p] = @ \cup {"http"}]
        /\ queryCase' = [queryCase EXCEPT ![p] = query_case(st, has_creds(g, e, f))]
        /\ CASE st = 200 -> http_ok(p, head)
             [] st \in {403, 404} /\ has_creds(g, e, f) -> http_with_creds(p, g, e, f)
             [] st \in {403, 404} /\ ~has_creds(g, e, f) -> http_no_creds(p, st)
             [] OTHER -> http_unknown(p)
    /\ UNCHANGED <<nativeLocking, lfsFailed, checkoutFailed, cacheExists, cache, snap,
                   holders, revision, offline, cached_sha, cacheCopy, shortcut,
                   observed, cloneOutcome, acq>>

\* Lines 186-213 after get_cached_sha returned on a 403 without credentials:
\* whether or not cached_sha was found, control falls through to the token
\* lookup, where neither gh_auth_token nor GITHUB_TOKEN is set and the
\* ~/.git-credentials that line 180 found missing is opened.
rate_limit_continue(p) ==
    /\ pc[p] = "rl_cont"
    /\ pc' = [pc EXCEPT ![p] = "done"]
    /\ outcome' = [outcome EXCEPT ![p] = "FileNotFoundError"]
    /\ UNCHANGED <<nativeLocking, lfsFailed, query, checkoutFailed, cacheExists, cache, snap, holders, locals, hist>>

\* Mutant of auth_lookup: the except clause swallows the exception and the
\* revision string itself is used as the sha.
auth_lookup_swallow(p) ==
    /\ pc[p] = "auth"
    /\ ran' = [ran EXCEPT ![p] = @ \cup {"auth"}]
    /\ \E found \in BOOLEAN, head \in RemoteTargets(revision[p]) :
        /\ notFound' = [notFound EXCEPT ![p] = ~found]
        /\ sha' = [sha EXCEPT ![p] = head]
        /\ pc' = [pc EXCEPT ![p] = "put_lock"]
        /\ UNCHANGED outcome
    /\ UNCHANGED <<nativeLocking, lfsFailed, checkoutFailed, queryCase, bestSource, cacheExists,
                   cache, snap, holders, revision, offline, token, cached_sha,
                   cacheCopy, shortcut, observed, cloneOutcome, acq>>

\* Lines 215-225: the authenticated lookup; it finds the commit, or the
\* repository or the revision is not found and an exception leaves the call
\* (from get_repo, or the one of line 222).
auth_lookup(p) ==
    /\ pc[p] = "auth"
    /\ ran' = [ran EXCEPT ![p] = @ \cup {"auth"}]
    /\ \E found \in BOOLEAN, head \in RemoteTargets(revision[p]) :
        /\ notFound' = [notFound EXCEPT ![p] = ~found]
        /\ IF found
           THEN /\ sha' = [sha EXCEPT ![p] = head]
                /\ pc' = [pc EXCEPT ![p] = "put_lock"]
                /\ UNCHANGED outcome
           ELSE /\ pc' = [pc EXCEPT ![p] = "done"]
                /\ outcome' = [outcome EXCEPT ![p] = "GithubException"]
                /\ UNCHANGED sha
    /\ UNCHANGED <<nativeLocking, lfsFailed, checkoutFailed, queryCase, bestSource, cacheExists,
                   cache, snap, holders, revision, offline, token, cached_sha,
                   cacheCopy, shortcut, observed, cloneOutcome, acq>>

\* Mutant of put_lock: the read-merge-write runs without the with block.
put_lock_unguarded(p) ==
    /\ pc[p] = "put_lock"
    /\ acq' = [acq EXCEPT ![p] = @ \cup {"cache-lock"}]
    /\ pc' = [pc EXCEPT ![p] = "put_read"]
    /\ UNCHANGED <<nativeLocking, lfsFailed, query, checkoutFailed, cacheExists, cache, snap, holders, locals,
                   outcome, shortcut, observed, cloneOutcome, ran>>

\* Line 231: with LockEx(cache-lock).
put_lock(p) ==
    /\ pc[p] = "put_lock"
    /\ CanAcquire("cache-lock")
    /\ holders' = Acquire(p, "cache-lock")
    /\ acq' = [acq EXCEPT ![p] = @ \cup {"cache-lock"}]
    /\ pc' = [pc EXCEPT ![p] = "put_read"]
    /\ UNCHANGED <<nativeLocking, lfsFailed, query, checkoutFailed, cacheExists, cache, snap, locals, outcome,
                   shortcut, observed, cloneOutcome, ran>>

\* Mutant of put_read: the dict starts from {} whether or not the file exists.
put_read_empty(p) ==
    /\ pc[p] = "put_read"
    /\ cacheCopy' = [cacheCopy EXCEPT ![p] = EmptyCache]
    /\ pc' = [pc EXCEPT ![p] = "put_write"]
    /\ UNCHANGED <<nativeLocking, lfsFailed, query, checkoutFailed, cacheExists, cache, snap, holders, revision,
                   offline, sha, token, cached_sha, outcome, hist>>

\* Lines 232-236: load the file if it exists, else start from {}.
put_read(p) ==
    /\ pc[p] = "put_read"
    /\ cacheCopy' = [cacheCopy EXCEPT ![p] = IF cacheExists THEN cache ELSE EmptyCache]
    /\ pc' = [pc EXCEPT ![p] = "put_write"]
    /\ UNCHANGED <<nativeLocking, lfsFailed, query, checkoutFailed, cacheExists, cache, snap, holders, revision,
                   offline, sha, token, cached_sha, outcome, hist>>

\* Mutant of merged_cache: the new entry is dumped alone, without the entries
\* that were read.
merged_cache_fresh(old, r, s) == [k \in Revisions |-> IF k = r THEN s ELSE None]

\* Lines 237-239: the dict that is dumped.
merged_cache(old, r, s) == [old EXCEPT ![r] = s]

\* Mutant of put_write: the lock is taken by hand and not released before
\* the return.
put_write_keep_lock(p) ==
    /\ pc[p] = "put_write"
    /\ cache' = merged_cache(cacheCopy[p], revision[p], sha[p])
    /\ cacheExists' = TRUE
    /\ cacheCopy' = [cacheCopy EXCEPT ![p] = EmptyCache]
    /\ UNCHANGED holders
    /\ pc' = [pc EXCEPT ![p] = "lfs_lock"]
    /\ UNCHANGED <<nativeLocking, lfsFailed, query, checkoutFailed, snap, revision, offline, sha, token,
                   cached_sha, outcome, hist>>

\* Lines 237-241: rewrite the file, leave the with block, return.
put_write(p) ==
    /\ pc[p] = "put_write"
    /\ cache' = merged_cache(cacheCopy[p], revision[p], sha[p])
    /\ cacheExists' = TRUE
    /\ cacheCopy' = [cacheCopy EXCEPT ![p] = EmptyCache]
    /\ holders' = Release(p, "cache-lock")
    /\ pc' = [pc EXCEPT ![p] = "lfs_lock"]
    /\ UNCHANGED <<nativeLocking, lfsFailed, query, checkoutFailed, snap, revision, offline, sha, token,
                   cached_sha, outcome, hist>>

----------------------------------------------------------------------------
\* _get_git_lfs_cmd

\* Line 51: with LockEx(git-lfs-lock).
get_git_lfs_cmd_lock(p) ==
    /\ pc[p] = "lfs_lock"
    /\ CanAcquire("git-lfs-lock")
    /\ holders' = Acquire(p, "git-lfs-lock")
    /\ acq' = [acq EXCEPT ![p] = @ \cup {"git-lfs-lock"}]
    /\ pc' = [pc EXCEPT ![p] = "lfs_probe"]
    /\ UNCHANGED <<nativeLocking, lfsFailed, query, checkoutFailed, cacheExists, cache, snap, locals, outcome,
                   shortcut, observed, cloneOutcome, ran>>

\* Lines 52-134: run `git lfs`; return "git lfs" when it is available, else
\* install git-lfs under BASE_DIR, which succeeds or raises (an assertion, an
\* IOError, a failed tar).  The with block is left either way.
get_git_lfs_cmd_probe(p) ==
    /\ pc[p] = "lfs_probe"
    /\ ran' = [ran EXCEPT ![p] = @ \cup {"git lfs"}]
    /\ holders' = Release(p, "git-lfs-lock")
    /\ \E ok \in BOOLEAN :
        IF ok
        THEN /\ pc' = [pc EXCEPT ![p] = "ds_exists"]
             /\ UNCHANGED outcome
        ELSE /\ pc' = [pc EXCEPT ![p] = "done"]
             /\ outcome' = [outcome EXCEPT ![p] = "GitLfsSetupError"]
    /\ UNCHANGED <<nativeLocking, lfsFailed, query, checkoutFailed, cacheExists, cache, snap, locals, shortcut,
                   observed, cloneOutcome, acq>>

----------------------------------------------------------------------------
\* load_dataset (lines 282-338) and load_model (lines 382-452)

\* Mutant of dataset_exists: the clone is entered without the with block.
dataset_exists_nolock(p) ==
    /\ pc[p] = "ds_exists"
    /\ IF DirExists(sha[p])
       THEN /\ observed' = [observed EXCEPT ![p] = snap[sha[p]]]
            /\ pc' = [pc EXCEPT ![p] = "use_chdir"]
       ELSE /\ pc' = [pc EXCEPT ![p] = "clone"]
            /\ UNCHANGED observed
    /\ UNCHANGED <<nativeLocking, lfsFailed, query, checkoutFailed, cacheExists, cache, snap, holders, locals,
                   outcome, shortcut, cloneOutcome, acq, ran>>

\* Mutant of dataset_exists: the download is entered whether or not the
\* directory exists.
dataset_exists_always_download(p) ==
    /\ pc[p] = "ds_exists"
    /\ IF DirExists(sha[p])
       THEN /\ observed' = [observed EXCEPT ![p] = snap[sha[p]]]
            /\ pc' = [pc EXCEPT ![p] = "dl_lock"]
       ELSE /\ pc' = [pc EXCEPT ![p] = "dl_lock"]
            /\ UNCHANGED observed
    /\ UNCHANGED <<nativeLocking, lfsFailed, query, checkoutFailed, cacheExists, cache, snap, holders, locals,
                   outcome, shortcut, cloneOutcome, acq, ran>>

\* Line 284: if not os.path.exists(dataset_path).
dataset_exists(p) ==
    /\ pc[p] = "ds_exists"
    /\ IF DirExists(sha[p])
       THEN /\ observed' = [observed EXCEPT ![p] = snap[sha[p]]]
            /\ pc' = [pc EXCEPT ![p] = "use_chdir"]
       ELSE /\ pc' = [pc EXCEPT ![p] = "dl_lock"]
            /\ UNCHANGED observed
    /\ UNCHANGED <<nativeLocking, lfsFailed, query, checkoutFailed, cacheExists, cache, snap, holders, locals,
                   outcome, shortcut, cloneOutcome, acq, ran>>

\* Line 285: with LockEx(f"{project_dir}/lock").
download_lock(p) ==
    /\ pc[p] = "dl_lock"
    /\ CanAcquire("lock")
    /\ holders' = Acquire(p, "lock")
    /\ acq' = [acq EXCEPT ![p] = @ \cup {"lock"}]
    /\ pc' = [pc EXCEPT ![p] = "clone"]
    /\ UNCHANGED <<nativeLocking, lfsFailed, query, checkoutFailed, cacheExists, cache, snap, locals, outcome,
                   shortcut, observed, cloneOutcome, ran>>

\* Lines 290-299: git clone starts.  It refuses a destination that exists
\* (and is not empty) and changes nothing; otherwise it creates the directory
\* and begins to fill it.
git_clone_start(p) ==
    /\ pc[p] = "clone"
    /\ ran' = [ran EXCEPT ![p] = @ \cup {"git clone"}]
    /\ IF DirExists(sha[p])
       THEN /\ cloneOutcome' = [cloneOutcome EXCEPT ![p] = "exists"]
            /\ pc' = [pc EXCEPT ![p] = "cs_chdir"]
            /\ UNCHANGED snap
       ELSE /\ cloneOutcome' = [cloneOutcome EXCEPT ![p] = "started"]
            /\ snap' = [snap EXCEPT ![sha[p]] = "partial"]
            /\ pc' = [pc EXCEPT ![p] = "cloning"]
    /\ UNCHANGED <<nativeLocking, lfsFailed, query, checkoutFailed, cacheExists, cache, holders, locals, outcome,
                   shortcut, observed, acq>>

\* Lines 290-299: git clone ends; its return code is not inspected.  It has
\* cloned the repository, or failed and removed the directory it created, or
\* was cut short and left the directory partly filled.
git_clone_end(p) ==
    /\ pc[p] = "cloning"
    /\ \E res \in {"ok", "failed", "interrupted"} :
        /\ cloneOutcome' = [cloneOutcome EXCEPT ![p] = res]
        /\ snap' = [snap EXCEPT ![sha[p]] =
                       CASE res = "ok" -> "cloned"
                         [] res = "failed" -> "absent"
                         [] OTHER -> "partial"]
    /\ pc' = [pc EXCEPT ![p] = "cs_chdir"]
    /\ UNCHANGED <<nativeLocking, lfsFailed, query, checkoutFailed, cacheExists, cache, holders, locals, outcome,
                   shortcut, observed, acq, ran>>

\* Mutant of download_chdir: the lock is acquired and released by hand, and
\* the exception of os.chdir skips the release.
download_chdir_keep_lock(p) ==
    /\ pc[p] = "cs_chdir"
    /\ IF DirExists(sha[p])
       THEN /\ pc' = [pc EXCEPT ![p] = "checkout"]
            /\ UNCHANGED <<holders, outcome>>
       ELSE /\ pc' = [pc EXCEPT ![p] = "done"]
            /\ outcome' = [outcome EXCEPT ![p] = "FileNotFoundError"]
            /\ UNCHANGED holders
    /\ UNCHANGED <<nativeLocking, lfsFailed, query, checkoutFailed, cacheExists, cache, snap, locals, hist>>

\* Line 302: os.chdir(dataset_path) inside the with block; it raises when the
\* directory is not there, and the lock is released on the way out.
download_chdir(p) ==
    /\ pc[p] = "cs_chdir"
    /\ IF DirExists(sha[p])
       THEN /\ pc' = [pc EXCEPT ![p] = "checkout"]
            /\ UNCHANGED <<holders, outcome>>
       ELSE /\ holders' = Release(p, "lock")
            /\ pc' = [pc EXCEPT ![p] = "done"]
            /\ outcome' = [outcome EXCEPT ![p] = "FileNotFoundError"]
    /\ UNCHANGED <<nativeLocking, lfsFailed, query, checkoutFailed, cacheExists, cache, snap, locals, hist>>

\* git checkout <sha> exits non-zero: the directory is no finished clone, or
\* the checkout of a finished clone fails.
checkout_fails(state, ok) == state \in {"absent", "partial"} \/ (state = "cloned" /\ ~ok)

\* Lines 303-307: git checkout <sha>; its return code is not inspected.  In a
\* finished clone it succeeds or fails (the commit is not in the clone, the
\* disk is full); a directory that is no finished clone is left as it is; a
\* snapshot already at the commit stays there.
git_checkout(p) ==
    /\ pc[p] = "checkout"
    /\ ran' = [ran EXCEPT ![p] = @ \cup {"git checkout"}]
    /\ \E ok \in BOOLEAN :
        /\ snap' = [snap EXCEPT ![sha[p]] =
                       IF ok /\ @ = "cloned" THEN "checked" ELSE @]
        /\ checkoutFailed' = [checkoutFailed EXCEPT ![p] = checkout_fails(snap[sha[p]], ok)]
    /\ pc' = [pc EXCEPT ![p] = "restore"]
    /\ UNCHANGED <<nativeLocking, lfsFailed, query, cacheExists, cache, holders, locals,
                   outcome, shortcut, observed, cloneOutcome, acq>>

\* Lines 310-314: git restore --staged . and the end of the with block.
git_restore(p) ==
    /\ pc[p] = "restore"
    /\ ran' = [ran EXCEPT ![p] = @ \cup {"git restore"}]
    /\ snap' = [snap EXCEPT ![sha[p]] = IF @ = "checked" THEN "complete" ELSE @]
    /\ holders' = Release(p, "lock")
    /\ pc' = [pc EXCEPT ![p] = "use_chdir"]
    /\ UNCHANGED <<nativeLocking, lfsFailed, query, checkoutFailed, cacheExists, cache, locals, outcome,
                   shortcut, observed, cloneOutcome, acq>>

\* Line 317: os.chdir(dataset_path).
use_chdir(p) ==
    /\ pc[p] = "use_chdir"
    /\ IF DirExists(sha[p])
       THEN /\ pc' = [pc EXCEPT ![p] = "lfs"]
            /\ UNCHANGED outcome
       ELSE /\ pc' = [pc EXCEPT ![p] = "done"]
            /\ outcome' = [outcome EXCEPT ![p] = "FileNotFoundError"]
    /\ UNCHANGED <<nativeLocking, lfsFailed, query, checkoutFailed, cacheExists, cache, snap, holders, locals, hist>>

\* Mutant of lfs_all_ok: the chain of comparisons without its `== 0`.
lfs_all_ok_equal(out0, out1, out2) == out0 = out1 /\ out1 = out2

\* Line 329: assert out0.returncode == out1.returncode == out2.returncode == 0.
lfs_all_ok(out0, out1, out2) == out0 = 0 /\ out1 = 0 /\ out2 = 0

\* Lines 318-327: one of the three return codes is not 0.
lfs_nonzero(out0, out1, out2) == out0 # 0 \/ out1 # 0 \/ out2 # 0

\* Lines 319-329: git lfs install, fetch origin, checkout, and the assertion
\* on the three return codes.  The fetch goes to the remote for the objects
\* the snapshot does not hold yet.
git_lfs_materialize(p) ==
    /\ pc[p] = "lfs"
    /\ ran' = [ran EXCEPT ![p] = @ \cup {"git lfs install", "git lfs fetch", "git lfs checkout"}
                                   \cup (IF snap[sha[p]] # "materialized"
                                         THEN {"remote fetch"} ELSE {})]
    /\ \E out0 \in {0, 1}, out1 \in {0, 1}, out2 \in {0, 1} :
        /\ lfsFailed' = [lfsFailed EXCEPT ![p] = lfs_nonzero(out0, out1, out2)]
        /\ IF lfs_all_ok(out0, out1, out2)
           THEN /\ snap' = [snap EXCEPT ![sha[p]] = IF @ = "complete" THEN "materialized" ELSE @]
                /\ pc' = [pc EXCEPT ![p] = "exec_main"]
                /\ UNCHANGED outcome
           ELSE /\ pc' = [pc EXCEPT ![p] = "done"]
                /\ outcome' = [outcome EXCEPT ![p] = "AssertionError"]
                /\ UNCHANGED snap
    /\ UNCHANGED <<nativeLocking, query, checkoutFailed, cacheExists, cache,
                   holders, locals, shortcut, observed, cloneOutcome, acq>>

\* Mutant of exec_main: the loader is not read from the snapshot directory
\* and the call returns whatever the directory holds.
exec_main_unchecked(p) ==
    /\ pc[p] = "exec_main"
    /\ pc' = [pc EXCEPT ![p] = "done"]
    /\ outcome' = [outcome EXCEPT ![p] = "returned"]
    /\ UNCHANGED <<nativeLocking, lfsFailed, query, checkoutFailed, cacheExists, cache, snap, holders, locals, hist>>

\* Lines 331-338: exec main.py of the snapshot and call its loader; a
\* directory that holds no finished clone has no main.py to open.
exec_main(p) ==
    /\ pc[p] = "exec_main"
    /\ pc' = [pc EXCEPT ![p] = "done"]
    /\ outcome' = [outcome EXCEPT ![p] =
                      IF snap[sha[p]] \in {"absent", "partial"}
                      THEN "FileNotFoundError" ELSE "returned"]
    /\ UNCHANGED <<nativeLocking, lfsFailed, query, checkoutFailed, cacheExists, cache, snap, holders, locals, hist>>

----------------------------------------------------------------------------
Next ==
    \/ \E p \in Procs :
        \/ clone_repo_start(p)
        \/ get_cached_sha_exists(p)
        \/ get_cached_sha_lock(p)
        \/ get_cached_sha_read(p)
        \/ offline_check(p)
        \/ http_get(p)
        \/ rate_limit_continue(p)
        \/ auth_lookup(p)
        \/ put_lock(p)
        \/ put_read(p)
        \/ put_write(p)
        \/ get_git_lfs_cmd_lock(p)
        \/ get_git_lfs_cmd_probe(p)
        \/ dataset_exists(p)
        \/ download_lock(p)
        \/ git_clone_start(p)
        \/ git_clone_end(p)
        \/ download_chdir(p)
        \/ git_checkout(p)
        \/ git_restore(p)
        \/ use_chdir(p)
        \/ git_lfs_materialize(p)
        \/ exec_main(p)

Spec == Init /\ [][Next]_vars

\* The steps of a call once it is made: every step of load_dataset but the
\* call itself.
Proceed(p) ==
    \/ get_cached_sha_exists(p)
    \/ get_cached_sha_lock(p)
    \/ get_cached_sha_read(p)
    \/ offline_check(p)
    \/ http_get(p)
    \/ rate_limit_continue(p)
    \/ auth_lookup(p)
    \/ put_lock(p)
    \/ put_read(p)
    \/ put_write(p)
    \/ get_git_lfs_cmd_lock(p)
    \/ get_git_lfs_cmd_probe(p)
    \/ dataset_exists(p)
    \/ download_lock(p)
    \/ git_clone_start(p)
    \/ git_clone_end(p)
    \/ download_chdir(p)
    \/ git_checkout(p)
    \/ git_restore(p)
    \/ use_chdir(p)
    \/ git_lfs_materialize(p)
    \/ exec_main(p)

\* The process calls load_dataset again: the new call starts with fresh
\* locals and a fresh trace.
load_again(p) ==
    /\ pc[p] = "done"
    /\ pc' = [pc EXCEPT ![p] = "idle"]
    /\ revision' = [revision EXCEPT ![p] = None]
    /\ offline' = [offline EXCEPT ![p] = FALSE]
    /\ sha' = [sha EXCEPT ![p] = None]
    /\ token' = [token EXCEPT ![p] = ""]
    /\ cached_sha' = [cached_sha EXCEPT ![p] = None]
    /\ outcome' = [outcome EXCEPT ![p] = "idle"]
    /\ shortcut' = [shortcut EXCEPT ![p] = FALSE]
    /\ observed' = [observed EXCEPT ![p] = "none"]
    /\ cloneOutcome' = [cloneOutcome EXCEPT ![p] = "none"]
    /\ acq' = [acq EXCEPT ![p] = {}]
    /\ ran' = [ran EXCEPT ![p] = {}]
    /\ queryCase' = [queryCase EXCEPT ![p] = "none"]
    /\ notFound' = [notFound EXCEPT ![p] = FALSE]
    /\ bestSource' = [bestSource EXCEPT ![p] = ""]
    /\ checkoutFailed' = [checkoutFailed EXCEPT ![p] = FALSE]
    /\ lfsFailed' = [lfsFailed EXCEPT ![p] = FALSE]
    /\ UNCHANGED <<nativeLocking, cacheExists, cache, snap, holders, cacheCopy>>

\* The scenario of repeated loads: every call asks for the branch v1, the
\* remote stays at commit abc123, and a token, when one is used, is the
\* in-process override.
OneBranch ==
    \A p \in Procs :
        /\ revision[p] \in {None, "v1"}
        /\ sha[p] \in {None, "abc123"}
        /\ token[p] \in {"", "override"}
        /\ outcome[p] # "StopIteration"

\* Entering a with LockEx block.
LockStep(p) ==
    \/ get_cached_sha_lock(p)
    \/ put_lock(p)
    \/ get_git_lfs_cmd_lock(p)
    \/ download_lock(p)

RepeatNext ==
    \E p \in Procs :
        \/ clone_repo_start(p) /\ OneBranch'
        \/ get_cached_sha_exists(p) /\ OneBranch'
        \/ get_cached_sha_lock(p) /\ OneBranch'
        \/ get_cached_sha_read(p) /\ OneBranch'
        \/ offline_check(p) /\ OneBranch'
        \/ http_get(p) /\ OneBranch'
        \/ rate_limit_continue(p) /\ OneBranch'
        \/ auth_lookup(p) /\ OneBranch'
        \/ put_lock(p) /\ OneBranch'
        \/ put_read(p) /\ OneBranch'
        \/ put_write(p) /\ OneBranch'
        \/ get_git_lfs_cmd_lock(p) /\ OneBranch'
        \/ get_git_lfs_cmd_probe(p) /\ OneBranch'
        \/ dataset_exists(p) /\ OneBranch'
        \/ download_lock(p) /\ OneBranch'
        \/ git_clone_start(p) /\ OneBranch'
        \/ git_clone_end(p) /\ OneBranch'
        \/ download_chdir(p) /\ OneBranch'
        \/ git_checkout(p) /\ OneBranch'
        \/ git_restore(p) /\ OneBranch'
        \/ use_chdir(p) /\ OneBranch'
        \/ git_lfs_materialize(p) /\ OneBranch'
        \/ exec_main(p) /\ OneBranch'
        \/ load_again(p)

\* Processes that load the same branch again and again.  Each process is
\* scheduled, and every query and subprocess it waits for ends: a step of a
\* call that stays possible is taken (weak fairness).  Nothing makes a process
\* call load_dataset, the first time or again.
RepeatSpec ==
    /\ Init
    /\ [][RepeatNext]_vars
    /\ \A p \in Procs : WF_vars(Proceed(p) /\ OneBranch')

TypeOK ==
    /\ nativeLocking \in BOOLEAN
    /\ cacheExists \in BOOLEAN
    /\ cache \in [Revisions -> Shas \cup {None}]
    /\ snap \in [Shas -> SnapStates]
    /\ holders \in [Locks -> SUBSET Procs]
    /\ revision \in [Procs -> Revisions \cup {None}]
    /\ offline \in [Procs -> BOOLEAN]
    /\ sha \in [Procs -> Shas \cup {None}]
    /\ token \in [Procs -> {"", "override", "env", "file"}]
    /\ cached_sha \in [Procs -> Shas \cup {None}]
    /\ cacheCopy \in [Procs -> [Revisions -> Shas \cup {None}]]
    /\ queryCase \in [Procs -> QueryCases \cup {"none"}]
    /\ notFound \in [Procs -> BOOLEAN]
    /\ bestSource \in [Procs -> CredentialSources \cup {""}]
    /\ checkoutFailed \in [Procs -> BOOLEAN]
    /\ lfsFailed \in [Procs -> BOOLEAN]

----------------------------------------------------------------------------
\* Vocabulary of the properties

\* Inside the with LockEx(f"{project_dir}/lock") block of lines 285-314.
InDownload(p) == pc[p] \in {"clone", "cloning", "cs_chdir", "checkout", "restore"}

\* No git clone was cut short or failed for a reason of its own.
NoCloneFailed == \A p \in Procs : cloneOutcome[p] \notin {"failed", "interrupted"}

\* The process resolved online and its write of the cache file is done.
PutDone(p) ==
    /\ ~offline[p]
    /\ ~shortcut[p]
    /\ sha[p] # None
    /\ pc[p] \notin {"put_lock", "put_read", "put_write"}

\* The offline process is past the resolver (it returned or raised).
OfflineResolved(p) ==
    /\ offline[p]
    /\ pc[p] \notin {"idle", "gc_exists", "gc_lock", "gc_read", "off_check"}

CacheEmpty == ~cacheExists \/ cache = EmptyCache

DownloadCommands == {"git clone", "git checkout", "git restore"}

GitLfsCommands == {"git lfs", "git lfs install", "git lfs fetch", "git lfs checkout"}

NetworkCalls == {"http", "auth", "git clone", "remote fetch"}

----------------------------------------------------------------------------
\* C1.  At most one download: of the processes that load the same content
\* address, on a platform whose locks exclude and with no clone failing, only
\* one runs git clone; the others skip it.
C1_AtMostOneDownload ==
    (nativeLocking /\ NoCloneFailed) =>
        \A p \in Procs, q \in Procs :
            (p # q /\ sha[p] = sha[q]) =>
                ~("git clone" \in ran[p] /\ "git clone" \in ran[q])

\* C2.  Snapshot completeness: a process that finds the snapshot directory
\* and skips the download finds it with clone, checkout and restore done.
\* Stated for the most favourable setting: locks exclude, no clone fails.
C2_SnapshotComplete ==
    (nativeLocking /\ NoCloneFailed) =>
        \A p \in Procs :
            observed[p] # "none" => observed[p] \in {"complete", "materialized"}

\* C3.  Mutual exclusion of the download, as claimed for every platform: no
\* two processes are inside clone / checkout / restore at once, and whoever is
\* inside holds project_dir/lock.
C3_MutualExclusion ==
    /\ \A p \in Procs, q \in Procs : (InDownload(p) /\ InDownload(q)) => p = q
    /\ \A p \in Procs : InDownload(p) => holders["lock"] = {p}

\* C3 (amended).  The same on a platform with native advisory file locking.
C3_MutualExclusionNative == nativeLocking => C3_MutualExclusion

\* C3 witness: one process is inside the download while another waits for
\* the lock.
C3_Witness ==
    /\ nativeLocking
    /\ \E p \in Procs, q \in Procs : pc[p] = "cloning" /\ pc[q] = "dl_lock"

\* C4.  Rate-limit fallback: an online resolution that got a 403 without any
\* credential and found the revision in the cache ends with that cached
\* content address, not with an error.  (Online, cached_sha is only set on
\* that path.)
C4_RateLimitFallback ==
    \A p \in Procs :
        (~offline[p] /\ cached_sha[p] # None /\ pc[p] # "rl_cont") =>
            (sha[p] = cached_sha[p] /\ outcome[p] \in {"running", "returned"})

\* C5.  Fast path, as claimed: a call that finds the snapshot directory takes
\* neither the download lock nor the git-lfs lock and runs no subprocess.
C5_FastPathNothing ==
    \A p \in Procs :
        observed[p] # "none" =>
            /\ acq[p] \cap {"lock", "git-lfs-lock"} = {}
            /\ ran[p] \cap (DownloadCommands \cup GitLfsCommands) = {}

\* C5 (amended).  A call that finds the snapshot directory never takes the
\* download lock and runs none of git clone, git checkout, git restore.
C5_FastPathSkipsDownload ==
    \A p \in Procs :
        observed[p] # "none" =>
            /\ "lock" \notin acq[p]
            /\ ran[p] \cap DownloadCommands = {}
            /\ cloneOutcome[p] = "none"

\* C5 witness: a call on an already materialized snapshot has returned.
C5_Witness ==
    \E p \in Procs : observed[p] = "materialized" /\ outcome[p] = "returned"

\* C6.  Offline mode reaches no remote: no revision-listing query, no
\* authenticated lookup, no clone, no large-file fetch from the remote.
\* Stated for the most favourable setting: locks exclude, no clone fails, and
\* the snapshot the offline call finds is a finished download.
C6_OfflineNoDownload ==
    (nativeLocking /\ NoCloneFailed) =>
        \A p \in Procs :
            (offline[p] /\ observed[p] \notin {"partial", "cloned", "checked"}) =>
                ran[p] \cap NetworkCalls = {}

\* C7.  Offline without cache fails: while the revision cache is empty, every
\* offline resolution that has ended has raised the ValueError of line 165.
C7_OfflineEmptyCacheFails ==
    CacheEmpty =>
        \A p \in Procs : OfflineResolved(p) => outcome[p] = "ValueError"

\* C7 witness: an offline call has failed on the empty cache.
C7_Witness ==
    CacheEmpty /\ \E p \in Procs : OfflineResolved(p) /\ outcome[p] = "ValueError"

\* C8.  Content-address short-circuit: a call whose revision names an existing
\* directory resolves to (revision, "") with no query, no authenticated lookup
\* and no cache lookup, offline or not.
C8_ShortCircuit ==
    \A p \in Procs :
        shortcut[p] =>
            /\ sha[p] = revision[p]
            /\ token[p] = ""
            /\ ran[p] \cap {"http", "auth"} = {}
            /\ "cache-lock" \notin acq[p]
            /\ cached_sha[p] = None
            /\ pc[p] \notin {"gc_exists", "gc_lock", "gc_read", "off_check", "http",
                             "rl_cont", "auth", "put_lock", "put_read", "put_write"}

\* C8 witness: a call that took the short-circuit has returned.
C8_Witness ==
    \E p \in Procs : shortcut[p] /\ outcome[p] = "returned"

\* C9.  Cache round trip, as claimed for every platform: the write of a put
\* leaves the file mapping the revision to the new content address and every
\* other key as the file had it.
C9_PutRoundTrip ==
    [][\A p \in Procs :
          (pc[p] = "put_write" /\ pc'[p] # "put_write") =>
              /\ cacheExists'
              /\ cache' = [cache EXCEPT ![revision[p]] = sha[p]]]_vars

\* C9 (amended).  The same on a platform with native advisory file locking.
C9_PutRoundTripNative ==
    [][nativeLocking =>
          \A p \in Procs :
              (pc[p] = "put_write" /\ pc'[p] # "put_write") =>
                  /\ cacheExists'
                  /\ cache' = [cache EXCEPT ![revision[p]] = sha[p]]]_vars

\* C9 witness: v1 was put as abc123 and then as def456, the later one stands,
\* under native locking.
C9_Witness ==
    /\ nativeLocking
    /\ cache["v1"] = "def456"
    /\ \E p \in Procs, q \in Procs :
        /\ PutDone(p) /\ revision[p] = "v1" /\ sha[p] = "abc123"
        /\ PutDone(q) /\ revision[q] = "v1" /\ sha[q] = "def456"

\* C10.  No lost updates, as claimed for every platform: every process whose
\* put is done finds its revision in the cache file, mapped to what one of
\* the finished puts of that revision wrote.
C10_NoLostUpdates ==
    \A p \in Procs :
        PutDone(p) =>
            /\ cacheExists
            /\ cache[revision[p]] \in
                  {sha[q] : q \in {x \in Procs : PutDone(x) /\ revision[x] = revision[p]}}

\* C10 (amended).  The same on a platform with native advisory file locking.
C10_NoLostUpdatesNative == nativeLocking => C10_NoLostUpdates

\* C10 witness: two processes have put distinct revisions under native
\* locking.
C10_Witness ==
    /\ nativeLocking
    /\ \E p \in Procs, q \in Procs :
        PutDone(p) /\ PutDone(q) /\ revision[p] # revision[q]

----------------------------------------------------------------------------
\* C11.  Lock release on failure: the download lock is held only by processes
\* inside the with block of lines 285-314; a process that left the block, by
\* its end or by the exception of a failed step, holds it no longer, so the
\* next process can acquire it.
C11_LockReleasedOnExit ==
    \A p \in Procs : p \in holders["lock"] => InDownload(p)

\* A clone failed, os.chdir raised inside the block, and where locks exclude
\* another process holds the download lock after that.
C11_Witness ==
    \E p \in Procs, q \in Procs :
        /\ nativeLocking
        /\ cloneOutcome[p] = "failed"
        /\ pc[p] = "done"
        /\ outcome[p] = "FileNotFoundError"
        /\ q \in holders["lock"]

----------------------------------------------------------------------------
\* C12.  A repository the remote reports as not found is never loaded: once
\* the remote's answer is "not found" (a 404 with no credential source, or
\* the authenticated lookup finding nothing) the call has raised, whatever
\* the credential source was, and it never returns a dataset.
C12_NotFoundRaises ==
    \A p \in Procs :
        notFound[p] =>
            /\ pc[p] = "done"
            /\ outcome[p] \in {"NotFoundNoCredentials", "GithubException"}
            /\ sha[p] = None

\* One call was told "not found" without credentials, another with a token.
C12_Witness ==
    \E p \in Procs, q \in Procs :
        /\ notFound[p]
        /\ queryCase[p] = "404 no credentials"
        /\ notFound[q]
        /\ token[q] \in {"override", "env", "file"}

----------------------------------------------------------------------------
\* C13.  Rate-limited with neither credentials nor cache: when the listing
\* query answers 403, no credential source is there and the cache holds no
\* entry for the revision, the resolver fails in its cache fallback with a
\* condition of its own (RateLimitedNoCache), not by running on into the
\* token lookup and failing to open the credential file.
C13_RateLimitedNoCache ==
    \A p \in Procs :
        (queryCase[p] = "403 no credentials" /\ cached_sha[p] = None /\ pc[p] = "done") =>
            outcome[p] \notin {"FileNotFoundError", "returned"}

----------------------------------------------------------------------------
\* C14.  Not found with no credentials: when the listing query answers 404
\* and neither gh_auth_token, GITHUB_TOKEN nor ~/.git-credentials is there,
\* the call ends at once with the exception that tells how to supply a token,
\* and no authenticated lookup is made.
C14_NotFoundNoCredentials ==
    \A p \in Procs :
        queryCase[p] = "404 no credentials" =>
            /\ pc[p] = "done"
            /\ outcome[p] = "NotFoundNoCredentials"
            /\ "auth" \notin ran[p]
            /\ token[p] = ""
            /\ sha[p] = None

\* A call that got 404 without credentials has ended.
C14_Witness ==
    \E p \in Procs :
        /\ queryCase[p] = "404 no credentials"
        /\ ran[p] = {"http"}
        /\ pc[p] = "done"

----------------------------------------------------------------------------
\* C15.  Postcondition of a successful load: whenever load_dataset has
\* returned, the resolver gave it a sha and the snapshot directory
\* project_dir/<sha> exists.
C15_SnapshotExists ==
    \A p \in Procs :
        outcome[p] = "returned" => (sha[p] # None /\ DirExists(sha[p]))

\* A call downloaded its snapshot and returned while another call's clone of
\* the other sha failed and removed its directory.
C15_Witness ==
    \E p \in Procs, q \in Procs :
        /\ outcome[p] = "returned"
        /\ cloneOutcome[p] = "ok"
        /\ cloneOutcome[q] = "failed"

----------------------------------------------------------------------------
\* C16.  Download failures surface: a call whose git clone or git checkout
\* failed ends with an error (DownloadFailed) and never returns the snapshot
\* to the caller as usable.  Stated where locks exclude.
C16_DownloadFailureSurfaces ==
    nativeLocking =>
        \A p \in Procs :
            (checkoutFailed[p] \/ cloneOutcome[p] \in {"failed", "interrupted"}) =>
                outcome[p] # "returned"

----------------------------------------------------------------------------
\* The process that takes the step.
Steps(p) == pc'[p] # pc[p]

\* The step rewrites the revision-cache file.
CacheFileWritten == cache' # cache \/ cacheExists' # cacheExists

\* C17 as claimed.  Every mutation of the cache tree is made under its lock:
\* each step that changes a snapshot directory, large-file materialization
\* included, is taken by a process holding the download lock, and each step
\* that writes the cache file by a process holding the cache-lock.
C17_MutationUnderLock ==
    [][\A p \in Procs :
          Steps(p) =>
              /\ (snap' # snap => p \in holders["lock"])
              /\ (CacheFileWritten => p \in holders["cache-lock"])]_vars

\* C17.  Mutation under lock, without the large files: each step that
\* populates a snapshot directory (git clone, checkout, restore) is taken by
\* a process holding the download lock, and each step that writes the cache
\* file by a process holding the cache-lock; the git lfs fetch and checkout
\* of lines 319-329 change the snapshot with no lock held.
C17_PopulationUnderLock ==
    [][\A p \in Procs :
          Steps(p) =>
              /\ (snap' # snap =>
                     IF pc[p] = "lfs"
                     THEN holders' = holders /\ p \notin holders["lock"]
                     ELSE p \in holders["lock"])
              /\ (CacheFileWritten => p \in holders["cache-lock"])]_vars

\* A call wrote the cache file, populated its snapshot and materialized the
\* large files.
C17_Witness ==
    \E p \in Procs :
        /\ cacheExists
        /\ cloneOutcome[p] = "ok"
        /\ snap[sha[p]] = "materialized"
        /\ pc[p] = "exec_main"

----------------------------------------------------------------------------
\* The step in which an online resolution returns its sha to load_dataset:
\* the resolver is left for _get_git_lfs_cmd by a call that is not offline
\* and did not take the short-circuit of line 156.
OnlineResolveReturns(p) ==
    /\ pc[p] # "lfs_lock"
    /\ pc'[p] = "lfs_lock"
    /\ ~offline'[p]
    /\ ~shortcut'[p]

\* C18.  Persistence of successful online resolutions: when an online
\* resolution succeeds (status 200, or the authenticated lookup after a 403
\* or 404), the step that returns is the one that rewrites the cache file,
\* taken while the cache-lock is held, and the file then maps the revision to
\* the sha that is returned.
C18_OnlineResolutionPersisted ==
    [][\A p \in Procs :
          OnlineResolveReturns(p) =>
              /\ queryCase[p] \in {"200", "credentials"}
              /\ p \in holders["cache-lock"]
              /\ cacheExists'
              /\ sha'[p] # None
              /\ cache'[revision'[p]] = sha'[p]]_vars

\* Two calls resolved online, one by the listing and one by the authenticated
\* lookup, and the cache file holds what they returned.
C18_Witness ==
    \E p \in Procs, q \in Procs :
        /\ queryCase[p] = "200"
        /\ queryCase[q] = "credentials"
        /\ revision[p] # revision[q]
        /\ pc[p] = "done" /\ pc[q] = "done"
        /\ sha[p] # None /\ sha[q] # None
        /\ cache[revision[p]] = sha[p]
        /\ cache[revision[q]] = sha[q]

----------------------------------------------------------------------------
\* The step is the cache write of a call that resolved revision r to sha s.
WritesResolution(r, s) ==
    \E p \in Procs :
        /\ Steps(p)
        /\ pc[p] = "put_write"
        /\ revision[p] = r
        /\ sha[p] = s

\* In this step no key leaves the cache file, and a value changes only by
\* the write of a resolution of that same revision.
CacheStepMonotone ==
    \A r \in Revisions :
        cache[r] # None =>
            /\ cache'[r] # None
            /\ (cache'[r] # cache[r] => WritesResolution(r, cache'[r]))

\* C19 as claimed.  Revision cache monotonicity: a revision key once present
\* in the cache file is never removed, and its value changes only when a
\* successful resolution of that same revision writes a new sha.
C19_CacheMonotone == [][CacheStepMonotone]_vars

\* C19.  Revision cache monotonicity where the platform's file lock
\* excludes: a key once present is never removed and its value changes only
\* by the write of a resolution of that same revision.
C19_CacheMonotoneNative == [][nativeLocking => CacheStepMonotone]_vars

\* With excluding locks the file holds both revisions, the branch's entry
\* having been written after the commit id's by the call that is now done.
C19_Witness ==
    \E p \in Procs, q \in Procs :
        /\ nativeLocking
        /\ revision[p] = "abc123" /\ revision[q] = "v1"
        /\ cache["abc123"] = "abc123"
        /\ cache["v1"] = "def456"
        /\ pc[p] = "done" /\ pc[q] = "done"

----------------------------------------------------------------------------
\* The offline call is inside the resolver, past the short-circuit of line
\* 156 (no directory is named exactly `revision`).
InOfflineResolve(p) ==
    /\ offline[p]
    /\ pc[p] \in {"gc_exists", "gc_lock", "gc_read", "off_check"}

\* C20.  Offline success: an offline call for which no directory is named
\* exactly `revision` never writes the cache file while it resolves, and when
\* the cache lookup gave it a sha whose snapshot directory exists, the
\* resolver returns that sha with an empty token and does not raise.
C20_OfflineSuccess ==
    [][\A p \in Procs :
          (InOfflineResolve(p) /\ Steps(p)) =>
              /\ ~CacheFileWritten
              /\ (pc[p] = "off_check" /\ cached_sha[p] # None /\ DirExists(cached_sha[p])) =>
                     /\ pc'[p] = "lfs_lock"
                     /\ sha'[p] = cached_sha[p]
                     /\ token'[p] = ""
                     /\ outcome'[p] = "running"]_vars

\* An offline call for the branch name got the cached sha and returned its
\* dataset.
C20_Witness ==
    \E p \in Procs :
        /\ offline[p]
        /\ ~shortcut[p]
        /\ revision[p] = "v1"
        /\ sha[p] # None
        /\ sha[p] = cached_sha[p]
        /\ token[p] = ""
        /\ outcome[p] = "returned"

----------------------------------------------------------------------------
\* C21.  Large-file materialization is all-or-nothing for the call: when one
\* of git lfs install, fetch and checkout exited non-zero, the call has ended
\* with the AssertionError of line 329, main.py of the snapshot was not
\* executed and nothing is returned.
C21_LfsAllOrNothing ==
    \A p \in Procs :
        lfsFailed[p] =>
            /\ pc[p] = "done"
            /\ outcome[p] = "AssertionError"

\* One call failed on its git lfs commands while another, on the same
\* snapshot, passed them and returned.
C21_Witness ==
    \E p \in Procs, q \in Procs :
        /\ lfsFailed[p]
        /\ sha[p] = sha[q]
        /\ "git lfs checkout" \in ran[q]
        /\ ~lfsFailed[q]
        /\ outcome[q] = "returned"

----------------------------------------------------------------------------
\* The call waits to enter a with LockEx block.
WaitsForLock(p) == pc[p] \in {"gc_lock", "put_lock", "lfs_lock", "dl_lock"}

\* Each call of load_dataset returns or raises, and each call that waits for
\* a lock gets it.
Progress ==
    \A p \in Procs :
        /\ (outcome[p] = "running") ~> (pc[p] = "done")
        /\ WaitsForLock(p) ~> ~WaitsForLock(p)

----------------------------------------------------------------------------
\* The lock files the process holds.
Held(p) == {l \in Locks : p \in holders[l]}

\* C23.  No nested lock acquisition: a process holds at most one of
\* git-lfs-lock, cache-lock and the download lock at a time, and when it is
\* about to enter a with LockEx block it holds none, so it neither nests two
\* locks nor takes again one it holds, and a process that waits for a lock
\* never keeps another process waiting.
C23_NoNestedLocks ==
    \A p \in Procs :
        /\ Cardinality(Held(p)) <= 1
        /\ WaitsForLock(p) => Held(p) = {}

\* A call that has taken all three locks in turn holds the download lock
\* while another call waits for it.
C23_Witness ==
    \E p \in Procs, q \in Procs :
        /\ nativeLocking
        /\ acq[p] = Locks
        /\ Held(p) = {"lock"}
        /\ pc[q] = "dl_lock"

----------------------------------------------------------------------------
\* C24.  Credential priority: a call that needs a token and has a source for
\* one takes it from the source of highest priority that is there (the
\* override, else GITHUB_TOKEN, else the credential file, which can fail to
\* yield one); a call that needs none has none.
C24_CredentialPriority ==
    \A p \in Procs :
        IF queryCase[p] = "credentials"
        THEN /\ bestSource[p] \in CredentialSources
             /\ token[p] = (IF outcome[p] = "StopIteration" THEN "" ELSE bestSource[p])
             /\ outcome[p] = "StopIteration" => bestSource[p] = "file"
        ELSE token[p] = "" /\ bestSource[p] = ""

\* One call took the token of the environment, the override being unset, and
\* another that of the credential file, the other two being unset.
C24_Witness ==
    \E p \in Procs, q \in Procs :
        /\ token[p] = "env"
        /\ token[q] = "file"
        /\ "auth" \in ran[p]
        /\ "auth" \in ran[q]

----------------------------------------------------------------------------
\* The call has resolved its revision online: the listing answered 200, or
\* the authenticated lookup found the commit.
ResolvedOnline(p) ==
    /\ ~offline[p]
    /\ ~shortcut[p]
    /\ queryCase[p] \in {"200", "credentials"}
    /\ ~notFound[p]
    /\ sha[p] # None

\* C25.  The revision cache file is written only by a successful online
\* resolution: every step that changes the file is the cache write of a call
\* that resolved online; the steps of a short-circuited call, of an offline
\* call and of a call whose query failed leave the file as it was.
C25_OnlyOnlineWrites ==
    [][\A p \in Procs :
          (Steps(p) /\ ~(pc[p] = "put_write" /\ ResolvedOnline(p))) =>
              (cache' = cache /\ cacheExists' = cacheExists)]_vars

\* The file holds the branch's entry, written by the call that resolved it
\* online, and none for the commit id, after a short-circuited call for the
\* commit id has returned.
C25_Witness ==
    \E p \in Procs, q \in Procs :
        /\ cacheExists
        /\ cache["v1"] = "abc123"
        /\ cache["abc123"] = None
        /\ shortcut[p] /\ revision[p] = "abc123" /\ outcome[p] = "returned"
        /\ ResolvedOnline(q) /\ revision[q] = "v1"

====
